---------------------------- MODULE Spec2Model ----------------------------
(***************************************************************************)
(* A model of viswsl/modules/visual_stream.py: the blind visual stream,    *)
(* the torchvision and detectron2 backbone adapters, the renaming of a     *)
(* torchvision checkpoint into detectron2's naming scheme, and the         *)
(* patch / construct / restore sequence of D2BackboneVisualStream.__init__ *)
(* around the model-zoo config file.                                       *)
(*                                                                         *)
(* Text (file contents, state-dict keys) is a sequence of one-character    *)
(* strings, so that str.replace, str.startswith and re.search are computed *)
(* character by character as Python computes them.                         *)
(***************************************************************************)
EXTENDS Naturals, Sequences, FiniteSets, TLC

VARIABLES
    \* ---- D2BackboneVisualStream.__init__ ----
    name,          \* the `name` argument
    pretrained,    \* the `pretrained` argument
    disk,          \* config path -> the file there (exists, text)
    orig,          \* history: the disk when the constructor was entered
    pc,            \* position in the constructor
    contents,      \* local `contents`
    weights_cfg,   \* local `weights_cfg`
    d2_model,      \* local `d2_model`
    cnn,           \* self.cnn
    exception,     \* local `exception`
    raised,        \* the exception that left the constructor, or None
    layer4,        \* self._layer4
    d2_stage_names,\* self._stage_names
    seenByGet,     \* history: the config file as d2mz.get read it
    log,           \* history: file writes and the call of d2mz.get, in order
    \* ---- forward of the two adapters ----
    adapter,       \* which class's forward runs: "torchvision" or "d2"
    net,           \* the model name the adapter was built with
    image,         \* the `image` argument
    return_intermediate_outputs,  \* the flag argument
    fwd_pc,        \* position in forward
    idx,           \* number of children already applied
    out,           \* local `out`
    intermediate_outputs,  \* local dict: stage name -> tensor
    result,        \* what forward returned
    \* ---- TorchvisionVisualStream.detectron2_backbone_state_dict ----
    arch,          \* the torchvision model self.cnn was built as
    sd_idx,        \* items of self.cnn.state_dict() already renamed
    d2_backbone_dict, \* the dict being populated: key -> param
    sd_result,     \* what detectron2_backbone_state_dict returned
    \* ---- BlindVisualStream ----
    blind,         \* the object: _visual_feature_size, _bias, and the
                   \* bias_value it was constructed with
    blind_calls    \* history: the image and the output of every forward call

d2vars == <<name, pretrained, disk, orig, pc, contents, weights_cfg, d2_model,
            cnn, exception, raised, layer4, d2_stage_names, seenByGet, log>>
fwdvars == <<adapter, net, image, return_intermediate_outputs, fwd_pc, idx,
             out, intermediate_outputs, result>>
sdvars == <<arch, sd_idx, d2_backbone_dict, sd_result>>
blindvars == <<blind, blind_calls>>
vars == <<d2vars, fwdvars, sdvars, blindvars>>

None == "None"

-----------------------------------------------------------------------------
(* Python's str operations, on sequences of characters.                     *)

\* s[i:i+len(p)] == p
MatchAt(s, p, i) ==
    /\ i + Len(p) - 1 <= Len(s)
    /\ \A k \in 1..Len(p) : s[i + k - 1] = p[k]

\* s.startswith(p)
StartsWith(s, p) == MatchAt(s, p, 1)

RECURSIVE ReplaceFrom(_, _, _, _)
ReplaceFrom(s, old, new, i) ==
    IF i > Len(s) THEN <<>>
    ELSE IF MatchAt(s, old, i)
         THEN new \o ReplaceFrom(s, old, new, i + Len(old))
         ELSE <<s[i]>> \o ReplaceFrom(s, old, new, i + 1)

RECURSIVE Interleave(_, _, _)
Interleave(s, new, i) ==
    IF i > Len(s) THEN new ELSE new \o <<s[i]>> \o Interleave(s, new, i + 1)

\* s.replace(old, new): every non-overlapping occurrence, scanning from the
\* left; an empty `old` matches before every character and at the end.
StrReplace(s, old, new) ==
    IF old = <<>> THEN Interleave(s, new, 1) ELSE ReplaceFrom(s, old, new, 1)

RECURSIVE Concat(_)
Concat(ss) == IF ss = <<>> THEN <<>> ELSE Head(ss) \o Concat(Tail(ss))

-----------------------------------------------------------------------------
(* D2BackboneVisualStream.__init__                                          *)

MODEL_NAME_TO_CFG_PATH ==
    [n \in {"coco_faster_rcnn_R_50_C4", "coco_faster_rcnn_R_50_DC5",
            "coco_faster_rcnn_R_101_C4", "coco_faster_rcnn_R_101_DC5",
            "coco_mask_rcnn_R_50_C4", "coco_mask_rcnn_R_50_DC5",
            "coco_mask_rcnn_R_101_C4", "coco_mask_rcnn_R_101_DC5"} |->
       CASE n = "coco_faster_rcnn_R_50_C4" -> "COCO-Detection/faster_rcnn_R_50_C4_3x.yaml"
         [] n = "coco_faster_rcnn_R_50_DC5" -> "COCO-Detection/faster_rcnn_R_50_DC5_3x.yaml"
         [] n = "coco_faster_rcnn_R_101_C4" -> "COCO-Detection/faster_rcnn_R_101_C4_3x.yaml"
         [] n = "coco_faster_rcnn_R_101_DC5" -> "COCO-Detection/faster_rcnn_R_101_DC5_3x.yaml"
         [] n = "coco_mask_rcnn_R_50_C4" -> "COCO-InstanceSegmentation/mask_rcnn_R_50_C4_3x.yaml"
         [] n = "coco_mask_rcnn_R_50_DC5" -> "COCO-InstanceSegmentation/mask_rcnn_R_50_DC5_3x.yaml"
         [] n = "coco_mask_rcnn_R_101_C4" -> "COCO-InstanceSegmentation/mask_rcnn_R_101_C4_3x.yaml"
         [] n = "coco_mask_rcnn_R_101_DC5" -> "COCO-InstanceSegmentation/mask_rcnn_R_101_DC5_3x.yaml"]

KnownNames == DOMAIN MODEL_NAME_TO_CFG_PATH

\* The literal texts of the constructor.
KEY_OPEN == <<"W", "E", "I", "G", "H", "T", "S", ":", " ", "\"">>    \* WEIGHTS: "
QUOTE == <<"\"">>
NEWLINE == <<"\n">>
KEY_EMPTY == KEY_OPEN \o QUOTE                                      \* WEIGHTS: ""

\* re.search('WEIGHTS: "(.*)"\n', s): <<>> when there is no match (None),
\* else <<group 1>> of the leftmost match.  `.` matches no newline, so from
\* a start i the match ends at the first newline after the opening quote,
\* and that newline has to follow a closing quote.
GroupAt(s, i) ==
    LET g == i + Len(KEY_OPEN)
        nl == {j \in g..Len(s) : s[j] = "\n"}
    IN  IF ~MatchAt(s, KEY_OPEN, i) \/ nl = {} THEN <<>>
        ELSE LET j == CHOOSE k \in nl : \A m \in nl : k <= m
             IN  IF j - 1 >= g /\ s[j - 1] = "\"" THEN <<SubSeq(s, g, j - 2)>>
                 ELSE <<>>

ReSearchWeights(s) ==
    LET starts == {i \in 1..Len(s) : GroupAt(s, i) # <<>>}
    IN  IF starts = {} THEN <<>>
        ELSE GroupAt(s, CHOOSE i \in starts : \A m \in starts : i <= m)

File(text) == [exists |-> TRUE, text |-> text]
Missing == [exists |-> FALSE, text |-> <<>>]
NoModel == [built |-> FALSE, has_res5 |-> FALSE]

\* Inputs: the names asked for (two of the table, one unknown), and the
\* texts the config file of the requested name may hold.
MaxFrags == 5
RequestedNames == {"coco_faster_rcnn_R_50_C4", "coco_mask_rcnn_R_101_DC5", "resnet50"}
Fragments == {KEY_OPEN, QUOTE, NEWLINE, <<"x">>, <<"S">>}
FileTexts == {Concat(fs) : fs \in UNION {[1..n -> Fragments] : n \in 0..MaxFrags}}
StockText == KEY_OPEN \o <<"x">> \o QUOTE \o NEWLINE
GetErrors == {"get_error_1", "get_error_2"}

\* os.path.join("configs", MODEL_NAME_TO_CFG_PATH[name]) inside the package:
\* the file both the constructor and d2mz.get open for this name.
d2config_path == MODEL_NAME_TO_CFG_PATH[name]

\* The config files on the modelled disk: those of the names asked for.
CfgPaths == {MODEL_NAME_TO_CFG_PATH[n] : n \in RequestedNames \cap KnownNames}

D2Init ==
    /\ name \in RequestedNames
    /\ pretrained \in BOOLEAN
    /\ \E f \in {File(t) : t \in FileTexts} \cup {Missing} :
          disk = [p \in CfgPaths |->
                    IF name \in KnownNames /\ p = MODEL_NAME_TO_CFG_PATH[name]
                    THEN f ELSE File(StockText)]
    /\ orig = disk
    /\ pc = "patch_read"
    /\ contents = <<>>
    /\ weights_cfg = <<>>
    /\ d2_model = NoModel
    /\ cnn = "unset"
    /\ exception = "unset"
    /\ raised = [exc |-> None, at |-> None]
    /\ layer4 = "unset"
    /\ d2_stage_names = <<>>
    /\ seenByGet = <<>>
    /\ log = <<>>

Raise(exc, at) ==
    /\ raised' = [exc |-> exc, at |-> at]
    /\ pc' = "raised"

\* Lines 149-158 and 162-163: look the path up, read the file, find the value.
PatchRead ==
    /\ pc = "patch_read"
    /\ IF pretrained
       THEN /\ pc' = "get"
            /\ UNCHANGED <<contents, weights_cfg, raised>>
       ELSE IF name \notin KnownNames
       THEN /\ Raise("KeyError", "patch")
            /\ UNCHANGED <<contents, weights_cfg>>
       ELSE IF ~disk[d2config_path].exists
       THEN /\ Raise("RuntimeError", "patch")
            /\ UNCHANGED <<contents, weights_cfg>>
       ELSE LET m == ReSearchWeights(disk[d2config_path].text)
            IN  IF m = <<>>
                THEN /\ Raise("TypeError", "patch")
                     /\ UNCHANGED <<contents, weights_cfg>>
                ELSE /\ weights_cfg' = m[1]
                     /\ contents' = StrReplace(disk[d2config_path].text, m[1], <<>>)
                     /\ pc' = "patch_write"
                     /\ UNCHANGED raised
    /\ UNCHANGED <<name, pretrained, disk, orig, d2_model, cnn, exception,
                   layer4, d2_stage_names, seenByGet, log>>
    /\ UNCHANGED <<fwdvars, sdvars, blindvars>>

\* Lines 160-161.
PatchWrite ==
    /\ pc = "patch_write"
    /\ disk' = [disk EXCEPT ![d2config_path] = File(contents)]
    /\ log' = Append(log, "patch_write")
    /\ pc' = "get"
    /\ UNCHANGED <<name, pretrained, orig, contents, weights_cfg, d2_model, cnn,
                   exception, raised, layer4, d2_stage_names, seenByGet>>
    /\ UNCHANGED <<fwdvars, sdvars, blindvars>>

AfterGet == IF pretrained THEN "reraise" ELSE "restore_read"

\* Line 167, the table lookup fails before d2mz.get is called; lines 169-171.
GetKeyError ==
    /\ pc = "get"
    /\ name \notin KnownNames
    /\ cnn' = None
    /\ exception' = "KeyError"
    /\ pc' = AfterGet
    /\ UNCHANGED <<name, pretrained, disk, orig, contents, weights_cfg, d2_model,
                   raised, layer4, d2_stage_names, seenByGet, log>>
    /\ UNCHANGED <<fwdvars, sdvars, blindvars>>

\* Lines 167-168: d2mz.get reads the config file and returns a model; whether
\* its roi_heads hold a res5 stage is up to the config.
GetReturns ==
    /\ pc = "get"
    /\ name \in KnownNames
    /\ disk[d2config_path].exists
    /\ \E r \in BOOLEAN : d2_model' = [built |-> TRUE, has_res5 |-> r]
    /\ cnn' = "backbone"
    /\ seenByGet' = Append(seenByGet, disk[d2config_path])
    /\ log' = Append(log, "get_returned")
    /\ pc' = AfterGet
    /\ UNCHANGED <<name, pretrained, disk, orig, contents, weights_cfg,
                   exception, raised, layer4, d2_stage_names>>
    /\ UNCHANGED <<fwdvars, sdvars, blindvars>>

\* Lines 167, 169-171: d2mz.get raises.
GetRaises ==
    /\ pc = "get"
    /\ name \in KnownNames
    /\ \E e \in GetErrors :
          /\ exception' = e
          /\ log' = Append(log, e)
    /\ cnn' = None
    /\ seenByGet' = Append(seenByGet, disk[d2config_path])
    /\ pc' = AfterGet
    /\ UNCHANGED <<name, pretrained, disk, orig, contents, weights_cfg, d2_model,
                   raised, layer4, d2_stage_names>>
    /\ UNCHANGED <<fwdvars, sdvars, blindvars>>

\* Lines 174-178.
RestoreRead ==
    /\ pc = "restore_read"
    /\ contents' = StrReplace(disk[d2config_path].text, KEY_EMPTY,
                              KEY_OPEN \o weights_cfg \o QUOTE)
    /\ pc' = "restore_write"
    /\ UNCHANGED <<name, pretrained, disk, orig, weights_cfg, d2_model, cnn,
                   exception, raised, layer4, d2_stage_names, seenByGet, log>>
    /\ UNCHANGED <<fwdvars, sdvars, blindvars>>

\* Lines 180-181.
RestoreWrite ==
    /\ pc = "restore_write"
    /\ disk' = [disk EXCEPT ![d2config_path] = File(contents)]
    /\ log' = Append(log, "restore_write")
    /\ pc' = "reraise"
    /\ UNCHANGED <<name, pretrained, orig, contents, weights_cfg, d2_model, cnn,
                   exception, raised, layer4, d2_stage_names, seenByGet>>
    /\ UNCHANGED <<fwdvars, sdvars, blindvars>>

\* A constructor that swallows the exception of d2mz.get and carries on.
ReraiseSwallowed ==
    /\ pc = "reraise"
    /\ pc' = "finish"
    /\ UNCHANGED <<name, pretrained, disk, orig, contents, weights_cfg, d2_model,
                   cnn, exception, raised, layer4, d2_stage_names, seenByGet, log>>
    /\ UNCHANGED <<fwdvars, sdvars, blindvars>>

\* Lines 183-184.
Reraise ==
    /\ pc = "reraise"
    /\ IF cnn = None
       THEN Raise(exception, "reraise")
       ELSE /\ pc' = "finish"
            /\ UNCHANGED raised
    /\ UNCHANGED <<name, pretrained, disk, orig, contents, weights_cfg, d2_model,
                   cnn, exception, layer4, d2_stage_names, seenByGet, log>>
    /\ UNCHANGED <<fwdvars, sdvars, blindvars>>

\* Lines 186-193.
Finish ==
    /\ pc = "finish"
    /\ IF ~d2_model.has_res5
       THEN /\ Raise("AttributeError", "finish")
            /\ UNCHANGED <<layer4, d2_stage_names>>
       ELSE /\ layer4' = "res5"
            /\ d2_stage_names' = <<"res2", "res3", "res4">>
            /\ pc' = "done"
            /\ UNCHANGED raised
    /\ UNCHANGED <<name, pretrained, disk, orig, contents, weights_cfg, d2_model,
                   cnn, exception, seenByGet, log>>
    /\ UNCHANGED <<fwdvars, sdvars, blindvars>>

D2Next ==
    \/ PatchRead
    \/ PatchWrite
    \/ GetKeyError
    \/ GetReturns
    \/ GetRaises
    \/ RestoreRead
    \/ RestoreWrite
    \/ Reraise
    \/ Finish

-----------------------------------------------------------------------------
(* forward of TorchvisionVisualStream and of D2BackboneVisualStream.  The   *)
(* layers belong to the external libraries: a tensor is the image it was    *)
(* computed from and the layers applied to it, in order.                    *)

Images == {"image_a", "image_b"}
Tensor(i) == [image |-> i, ops |-> <<>>]
NoTensor == [image |-> "unbound", ops |-> <<>>]
EmptyDict == [k \in {} |-> NoTensor]

\* d[k] = v
DictSet(d, k, v) == [x \in DOMAIN d \cup {k} |-> IF x = k THEN v ELSE d[x]]

\* layer(x): nn.Identity returns its input, any other module computes a new
\* tensor from it.
Call(n, module, x) ==
    IF module = "Identity" THEN x ELSE [x EXCEPT !.ops = Append(@, <<n, module>>)]

\* torchvision's ResNet family (the models that take zero_init_residual).
TorchvisionNames == {"resnet18", "resnet50", "resnet101"}
\* self.cnn.named_children() of a torchvision ResNet.
TVChildren ==
    <<"conv1", "bn1", "relu", "maxpool", "layer1", "layer2", "layer3", "layer4",
      "avgpool", "fc">>
\* Line 59: self.cnn.fc = nn.Identity().
TVModule(child) == IF child = "fc" THEN "Identity" ELSE child
\* Line 62.
TVStageNames == {"layer1", "layer2", "layer3", "layer4"}

\* The names whose detectron2 model keeps res5 on the roi heads, so that the
\* constructor completes (lines 186-188).
D2ForwardNames ==
    {"coco_faster_rcnn_R_50_C4", "coco_faster_rcnn_R_101_C4",
     "coco_mask_rcnn_R_50_C4", "coco_mask_rcnn_R_101_C4"}
\* self.cnn.named_children() of such a backbone.
D2Children == <<"stem", "res2", "res3", "res4">>
\* Line 193.
D2StageNames == {"res2", "res3", "res4"}
\* Line 188.
D2Layer4Module == "res5"

FwdInit ==
    /\ adapter \in {"torchvision", "d2"}
    /\ net \in IF adapter = "torchvision" THEN TorchvisionNames ELSE D2ForwardNames
    /\ image \in {Tensor(i) : i \in Images}
    /\ return_intermediate_outputs \in BOOLEAN
    /\ fwd_pc = "loop"
    /\ idx = 0
    /\ out = NoTensor
    /\ intermediate_outputs = EmptyDict
    /\ result = [kind |-> "none", tensor |-> NoTensor, dict |-> EmptyDict]

\* A forward that returns the output of the last child instead of layer4's.
ReturnValueOfLastChild(flag, outputs) ==
    IF flag
    THEN [kind |-> "dict", tensor |-> NoTensor, dict |-> outputs]
    ELSE [kind |-> "tensor", tensor |-> out, dict |-> EmptyDict]

\* Lines 76-80 and 217-221.
ReturnValue(flag, outputs) ==
    IF flag
    THEN [kind |-> "dict", tensor |-> NoTensor, dict |-> outputs]
    ELSE [kind |-> "tensor", tensor |-> outputs["layer4"], dict |-> EmptyDict]

\* Lines 71-74: one iteration of the loop over the children.
TVLoop ==
    /\ adapter = "torchvision"
    /\ fwd_pc = "loop"
    /\ idx < Len(TVChildren)
    /\ LET child == TVChildren[idx + 1]
           o == Call(net, TVModule(child), IF idx = 0 THEN image ELSE out)
       IN  /\ out' = o
           /\ intermediate_outputs' =
                 IF child \in TVStageNames
                 THEN DictSet(intermediate_outputs, child, o)
                 ELSE intermediate_outputs
    /\ idx' = idx + 1
    /\ fwd_pc' = IF idx + 1 = Len(TVChildren) THEN "return" ELSE "loop"
    /\ UNCHANGED <<adapter, net, image, return_intermediate_outputs, result>>
    /\ UNCHANGED <<d2vars, sdvars, blindvars>>

\* Lines 76-80.
TVReturn ==
    /\ adapter = "torchvision"
    /\ fwd_pc = "return"
    /\ result' = ReturnValue(return_intermediate_outputs, intermediate_outputs)
    /\ fwd_pc' = "returned"
    /\ UNCHANGED <<adapter, net, image, return_intermediate_outputs, idx, out,
                   intermediate_outputs>>
    /\ UNCHANGED <<d2vars, sdvars, blindvars>>

\* Lines 202-205: one iteration of the loop over the backbone's children.
D2Loop ==
    /\ adapter = "d2"
    /\ fwd_pc = "loop"
    /\ idx < Len(D2Children)
    /\ LET child == D2Children[idx + 1]
           o == Call(net, child, IF idx = 0 THEN image ELSE out)
       IN  /\ out' = o
           /\ intermediate_outputs' =
                 IF child \in D2StageNames
                 THEN DictSet(intermediate_outputs, child, o)
                 ELSE intermediate_outputs
    /\ idx' = idx + 1
    /\ fwd_pc' = IF idx + 1 = Len(D2Children) THEN "layer4" ELSE "loop"
    /\ UNCHANGED <<adapter, net, image, return_intermediate_outputs, result>>
    /\ UNCHANGED <<d2vars, sdvars, blindvars>>

\* Line 207.
D2Layer4 ==
    /\ adapter = "d2"
    /\ fwd_pc = "layer4"
    /\ intermediate_outputs' =
          DictSet(intermediate_outputs, "res5", Call(net, D2Layer4Module, out))
    /\ fwd_pc' = "return"
    /\ UNCHANGED <<adapter, net, image, return_intermediate_outputs, idx, out,
                   result>>
    /\ UNCHANGED <<d2vars, sdvars, blindvars>>

\* A renaming that is off by one stage.
RenameStagesOffByOne(outputs) ==
    [k \in {"layer1", "layer2", "layer3", "layer4"} |->
       CASE k = "layer1" -> outputs["res3"]
         [] k = "layer2" -> outputs["res4"]
         [] k = "layer3" -> outputs["res5"]
         [] k = "layer4" -> outputs["res5"]]

\* Lines 210-215: rename keys to be consistent with torchvision.
RenameStages(outputs) ==
    [k \in {"layer1", "layer2", "layer3", "layer4"} |->
       CASE k = "layer1" -> outputs["res2"]
         [] k = "layer2" -> outputs["res3"]
         [] k = "layer3" -> outputs["res4"]
         [] k = "layer4" -> outputs["res5"]]

\* Lines 210-221.
D2Return ==
    /\ adapter = "d2"
    /\ fwd_pc = "return"
    /\ intermediate_outputs' = RenameStages(intermediate_outputs)
    /\ result' = ReturnValue(return_intermediate_outputs,
                             RenameStages(intermediate_outputs))
    /\ fwd_pc' = "returned"
    /\ UNCHANGED <<adapter, net, image, return_intermediate_outputs, idx, out>>
    /\ UNCHANGED <<d2vars, sdvars, blindvars>>

-----------------------------------------------------------------------------
(* BlindVisualStream.  A tensor is a nested sequence, one level per axis.   *)

MaxFeatureSize == 2
MaxBatch == 2
MaxCalls == 2
BiasValues == {0, 1}
Pixels == {0, 1}
\* An image is a batch of samples, image.size(0) of them.
BlindImages == UNION {[1..b -> Pixels] : b \in 0..MaxBatch}

\* torch.full((1, n), fill_value=v)
Full(n, v) == <<[i \in 1..n |-> v]>>

\* t.unsqueeze(0)
Unsqueeze0(t) == <<t>>

RECURSIVE Tile(_, _)
Tile(s, n) == IF n = 0 THEN <<>> ELSE s \o Tile(s, n - 1)

\* t.repeat(a, b, c) of a tensor with three axes.
Repeat3(t, a, b, c) ==
    Tile([i \in DOMAIN t |-> Tile([j \in DOMAIN t[i] |-> Tile(t[i][j], c)], b)], a)

\* Lines 30-38.
BlindInit ==
    /\ \E n \in 1..MaxFeatureSize, v \in BiasValues :
          blind = [visual_feature_size |-> n,
                   bias_value |-> v,
                   bias |-> [data |-> Full(n, v), requires_grad |-> FALSE]]
    /\ blind_calls = <<>>

\* A forward that adds the bias to what it sees of each sample.
BlindOutputSeeing(self, img) ==
    [b \in 1..Len(img) |->
       [j \in DOMAIN self.bias.data |->
          [f \in DOMAIN self.bias.data[j] |-> self.bias.data[j][f] + img[b]]]]

\* Lines 41-42: the value forward returns for `img`.
BlindOutput(self, img) ==
    LET batch_size == Len(img)
    IN  Repeat3(Unsqueeze0(self.bias.data), batch_size, 1, 1)

\* Lines 40-42.
BlindForward ==
    /\ Len(blind_calls) < MaxCalls
    /\ \E img \in BlindImages :
          blind_calls' = Append(blind_calls,
                                [image |-> img, output |-> BlindOutput(blind, img)])
    /\ UNCHANGED blind
    /\ UNCHANGED <<d2vars, fwdvars, sdvars>>

-----------------------------------------------------------------------------
(* TorchvisionVisualStream.detectron2_backbone_state_dict                   *)

DOT == <<".">>
\* Line 109 and line 110.
RES == <<"r", "e", "s">>
STEM_DOT == <<"s", "t", "e", "m", ".">>

\* A table that names downsample.1 like downsample.0.
RENAME_MAPPING_WITHOUT_SHORTCUT_NORM ==
    <<<<<<"l", "a", "y", "e", "r", "1">>,
        <<"r", "e", "s", "2">>>>,
      <<<<"l", "a", "y", "e", "r", "2">>,
        <<"r", "e", "s", "3">>>>,
      <<<<"l", "a", "y", "e", "r", "3">>,
        <<"r", "e", "s", "4">>>>,
      <<<<"l", "a", "y", "e", "r", "4">>,
        <<"r", "e", "s", "5">>>>,
      <<<<"b", "n", "1">>,
        <<"c", "o", "n", "v", "1", ".", "n", "o", "r", "m">>>>,
      <<<<"b", "n", "2">>,
        <<"c", "o", "n", "v", "2", ".", "n", "o", "r", "m">>>>,
      <<<<"b", "n", "3">>,
        <<"c", "o", "n", "v", "3", ".", "n", "o", "r", "m">>>>,
      <<<<"d", "o", "w", "n", "s", "a", "m", "p", "l", "e", ".", "0">>,
        <<"s", "h", "o", "r", "t", "c", "u", "t">>>>,
      <<<<"d", "o", "w", "n", "s", "a", "m", "p", "l", "e", ".", "1">>,
        <<"s", "h", "o", "r", "t", "c", "u", "t">>>>>>

\* Lines 90-100, in the order the dict is iterated.
DETECTRON2_RENAME_MAPPING ==
    <<<<<<"l", "a", "y", "e", "r", "1">>,
        <<"r", "e", "s", "2">>>>,
      <<<<"l", "a", "y", "e", "r", "2">>,
        <<"r", "e", "s", "3">>>>,
      <<<<"l", "a", "y", "e", "r", "3">>,
        <<"r", "e", "s", "4">>>>,
      <<<<"l", "a", "y", "e", "r", "4">>,
        <<"r", "e", "s", "5">>>>,
      <<<<"b", "n", "1">>,
        <<"c", "o", "n", "v", "1", ".", "n", "o", "r", "m">>>>,
      <<<<"b", "n", "2">>,
        <<"c", "o", "n", "v", "2", ".", "n", "o", "r", "m">>>>,
      <<<<"b", "n", "3">>,
        <<"c", "o", "n", "v", "3", ".", "n", "o", "r", "m">>>>,
      <<<<"d", "o", "w", "n", "s", "a", "m", "p", "l", "e", ".", "0">>,
        <<"s", "h", "o", "r", "t", "c", "u", "t">>>>,
      <<<<"d", "o", "w", "n", "s", "a", "m", "p", "l", "e", ".", "1">>,
        <<"s", "h", "o", "r", "t", "c", "u", "t", ".", "n", "o", "r", "m">>>>>>

\* Lines 105-106: the replacements, applied one after the other.
RECURSIVE ApplyMapping(_, _, _)
ApplyMapping(key, mapping, i) ==
    IF i > Len(mapping) THEN key
    ELSE ApplyMapping(StrReplace(key, mapping[i][1], mapping[i][2]), mapping, i + 1)

\* Lines 108-110.
StemPrefix(key) == IF ~StartsWith(key, RES) THEN STEM_DOT \o key ELSE key

\* Lines 105-110: the detectron2 name of one key.
RenameKey(key) == StemPrefix(ApplyMapping(key, DETECTRON2_RENAME_MAPPING, 1))

\* The torchvision models self.cnn is built as (line 55): the kind of
\* residual block and the number of blocks of layer1..layer4.
ARCHS ==
    [a \in {"resnet18", "resnet34", "resnet50", "resnet101"} |->
       CASE a = "resnet18" -> [block |-> "BasicBlock", layers |-> <<2, 2, 2, 2>>]
         [] a = "resnet34" -> [block |-> "BasicBlock", layers |-> <<3, 4, 6, 3>>]
         [] a = "resnet50" -> [block |-> "Bottleneck", layers |-> <<3, 4, 6, 3>>]
         [] a = "resnet101" -> [block |-> "Bottleneck", layers |-> <<3, 4, 23, 3>>]]

\* The entries of a module's state dict: its parameters, then its buffers.
ConvFields == <<"weight">>
NormFields == <<"weight", "bias", "running_mean", "running_var", "num_batches_tracked">>

\* One entry of self.cnn.state_dict(): layer 0 is the stem (conv1, bn1 of the
\* ResNet itself), mod is the submodule and field the parameter or buffer.
Entry(layer, block, mod, k, field) ==
    [layer |-> layer, block |-> block, mod |-> mod, k |-> k, field |-> field]

ModuleEntries(layer, block, mod, k) ==
    LET fields == IF mod \in {"conv", "downsample.0"} THEN ConvFields ELSE NormFields
    IN  [i \in 1..Len(fields) |-> Entry(layer, block, mod, k, fields[i])]

\* conv1, bn1, conv2, bn2 (, conv3, bn3), then downsample.0 and downsample.1
\* in the first block of a layer that changes the shape.
BlockEntries(a, layer, block) ==
    LET n == IF ARCHS[a].block = "Bottleneck" THEN 3 ELSE 2
        convs == Concat([k \in 1..n |->
                    ModuleEntries(layer, block, "conv", k)
                    \o ModuleEntries(layer, block, "bn", k)])
        down == block = 0 /\ (layer > 1 \/ ARCHS[a].block = "Bottleneck")
    IN  convs \o (IF down
                  THEN ModuleEntries(layer, block, "downsample.0", 0)
                       \o ModuleEntries(layer, block, "downsample.1", 1)
                  ELSE <<>>)

LayerEntries(a, layer) ==
    Concat([b \in 1..ARCHS[a].layers[layer] |-> BlockEntries(a, layer, b - 1)])

\* fc is nn.Identity (line 59) and holds nothing.
ArchEntries(a) ==
    ModuleEntries(0, 0, "conv", 1) \o ModuleEntries(0, 0, "bn", 1)
    \o Concat([l \in 1..4 |-> LayerEntries(a, l)])

DIGITS == <<"0", "1", "2", "3", "4", "5", "6", "7", "8", "9">>
RECURSIVE Decimal(_)
Decimal(n) ==
    IF n < 10 THEN <<DIGITS[n + 1]>> ELSE Decimal(n \div 10) \o <<DIGITS[(n % 10) + 1]>>

FieldText(f) ==
    CASE f = "weight" -> <<"w", "e", "i", "g", "h", "t">>
      [] f = "bias" -> <<"b", "i", "a", "s">>
      [] f = "running_mean" -> <<"r", "u", "n", "n", "i", "n", "g", "_", "m", "e", "a", "n">>
      [] f = "running_var" -> <<"r", "u", "n", "n", "i", "n", "g", "_", "v", "a", "r">>
      [] f = "num_batches_tracked" ->
           <<"n", "u", "m", "_", "b", "a", "t", "c", "h", "e", "s", "_", "t", "r", "a", "c", "k", "e", "d">>

ModText(mod, k) ==
    CASE mod = "conv" -> <<"c", "o", "n", "v">> \o Decimal(k)
      [] mod = "bn" -> <<"b", "n">> \o Decimal(k)
      [] mod \in {"downsample.0", "downsample.1"} ->
           <<"d", "o", "w", "n", "s", "a", "m", "p", "l", "e", ".">> \o Decimal(k)

\* The key torch gives the entry: the dotted path of module names.
KeyText(e) ==
    (IF e.layer = 0 THEN <<>>
     ELSE <<"l", "a", "y", "e", "r">> \o Decimal(e.layer) \o DOT \o Decimal(e.block) \o DOT)
    \o ModText(e.mod, e.k) \o DOT \o FieldText(e.field)

\* self.cnn.state_dict().items(): the keys in order, the parameter of entry i
\* identified by <<architecture, i>>.
StateDictItems ==
    [a \in DOMAIN ARCHS |->
       LET es == ArchEntries(a)
       IN  [i \in 1..Len(es) |-> [key |-> KeyText(es[i]), param |-> <<a, i>>]]]

EmptyParamDict == [k \in {} |-> <<>>]
NotReturned ==
    [returned |-> FALSE, model |-> EmptyParamDict, author |-> "", matching_heuristics |-> FALSE]

SdInit ==
    /\ arch \in DOMAIN ARCHS
    /\ sd_idx = 0
    /\ d2_backbone_dict = EmptyParamDict
    /\ sd_result = NotReturned

\* Lines 104-112: one iteration of the loop over the items.
SdLoop ==
    /\ ~sd_result.returned
    /\ sd_idx < Len(StateDictItems[arch])
    /\ LET item == StateDictItems[arch][sd_idx + 1]
       IN  d2_backbone_dict' = DictSet(d2_backbone_dict, RenameKey(item.key), item.param)
    /\ sd_idx' = sd_idx + 1
    /\ UNCHANGED <<arch, sd_result>>
    /\ UNCHANGED <<d2vars, fwdvars, blindvars>>

\* Lines 114-118.
SdReturn ==
    /\ ~sd_result.returned
    /\ sd_idx = Len(StateDictItems[arch])
    /\ sd_result' = [returned |-> TRUE,
                     model |-> d2_backbone_dict,
                     author |-> "Karan Desai",
                     matching_heuristics |-> TRUE]
    /\ UNCHANGED <<arch, sd_idx, d2_backbone_dict>>
    /\ UNCHANGED <<d2vars, fwdvars, blindvars>>

-----------------------------------------------------------------------------
(* The specifications: one per part of the module.  The parts share no      *)
(* state; each specification runs one part and leaves the others idle.      *)

D2Idle ==
    /\ name = "coco_faster_rcnn_R_50_C4"
    /\ pretrained = TRUE
    /\ disk = [p \in CfgPaths |-> File(StockText)]
    /\ orig = disk
    /\ pc = "idle"
    /\ contents = <<>>
    /\ weights_cfg = <<>>
    /\ d2_model = NoModel
    /\ cnn = "unset"
    /\ exception = "unset"
    /\ raised = [exc |-> None, at |-> None]
    /\ layer4 = "unset"
    /\ d2_stage_names = <<>>
    /\ seenByGet = <<>>
    /\ log = <<>>

FwdIdle ==
    /\ adapter = "torchvision"
    /\ net = "resnet50"
    /\ image = Tensor("image_a")
    /\ return_intermediate_outputs = FALSE
    /\ fwd_pc = "idle"
    /\ idx = 0
    /\ out = NoTensor
    /\ intermediate_outputs = EmptyDict
    /\ result = [kind |-> "none", tensor |-> NoTensor, dict |-> EmptyDict]

SdIdle ==
    /\ arch = "resnet18"
    /\ sd_idx = 0
    /\ d2_backbone_dict = EmptyParamDict
    /\ sd_result = NotReturned

BlindIdle ==
    /\ blind = [visual_feature_size |-> 1, bias_value |-> 0,
                bias |-> [data |-> Full(1, 0), requires_grad |-> FALSE]]
    /\ blind_calls = <<>>

Init == D2Init /\ FwdIdle /\ SdIdle /\ BlindIdle
Next == D2Next
Spec == Init /\ [][Next]_vars

ForwardInit == FwdInit /\ D2Idle /\ SdIdle /\ BlindIdle
ForwardNext ==
    \/ TVLoop
    \/ TVReturn
    \/ D2Loop
    \/ D2Layer4
    \/ D2Return
SpecForward == ForwardInit /\ [][ForwardNext]_vars

StateDictInit == SdInit /\ D2Idle /\ FwdIdle /\ BlindIdle
StateDictNext ==
    \/ SdLoop
    \/ SdReturn
SpecStateDict == StateDictInit /\ [][StateDictNext]_vars

BlindStreamInit == BlindInit /\ D2Idle /\ FwdIdle /\ SdIdle
BlindStreamNext == BlindForward
SpecBlind == BlindStreamInit /\ [][BlindStreamNext]_vars

-----------------------------------------------------------------------------
(* Properties of D2BackboneVisualStream.__init__ (specification Spec).      *)

Finished == pc \in {"done", "raised"}
GetWasCalled == seenByGet # <<>>
GetRaised == \E i \in 1..Len(log) : log[i] \in GetErrors
GetReturned == \E i \in 1..Len(log) : log[i] = "get_returned"
\* The config file holds a line WEIGHTS: "<value>".
HasWeightsLine(f) == f.exists /\ ReSearchWeights(f.text) # <<>>

\* C1: with pretrained=False and a name of the table, for every initial
\* content of the config file that holds a line WEIGHTS: "<value>", once the
\* constructor has finished (d2mz.get having returned or raised) the file is
\* character for character what it was before the call.
C1_ConfigRestored ==
    (/\ Finished
     /\ ~pretrained
     /\ name \in KnownNames
     /\ GetWasCalled
     /\ HasWeightsLine(orig[d2config_path]))
    => disk = orig

\* The part of C1 the code keeps: no other file than the requested name's
\* config is ever changed.
C1_OtherFilesUntouched ==
    \A p \in CfgPaths :
       (name \in KnownNames => p # d2config_path) => disk[p] = orig[p]

\* The order of C5 alone: the patch is written, then d2mz.get is called and
\* returns or raises, then the restore is written.
C5_Order ==
    ~pretrained =>
       \/ log = <<>>
       \/ log = <<"patch_write">>
       \/ /\ Len(log) \in {2, 3}
          /\ log[1] = "patch_write"
          /\ log[2] \in GetErrors \cup {"get_returned"}
          /\ Len(log) = 3 => log[3] = "restore_write"

\* C5: with pretrained=False the steps happen in the order patch-write, model
\* construction, restore-write, and at the moment d2mz.get reads the config
\* file the value of its WEIGHTS key is the empty string.
C5_PatchedWhenGetReads ==
    /\ C5_Order
    /\ (~pretrained /\ GetWasCalled)
          => ReSearchWeights(seenByGet[1].text) = << <<>> >>

\* C6: when d2mz.get raises, the constructor restores the config file and then
\* raises that same exception from the re-raise step, without ever reading
\* roi_heads.res5 or setting _stage_names; when d2mz.get returns, the restore
\* and re-raise steps raise nothing.
C6_SameExceptionReraised ==
    /\ GetRaised =>
          /\ pc \in {"restore_read", "restore_write", "reraise", "raised"}
          /\ layer4 = "unset"
          /\ d2_stage_names = <<>>
          /\ pc = "raised" =>
                /\ raised = [exc |-> log[IF pretrained THEN 1 ELSE 2], at |-> "reraise"]
                /\ ~pretrained => log[Len(log)] = "restore_write"
    /\ GetReturned =>
          /\ raised.at # "reraise"
          /\ pc \in {"restore_read", "restore_write", "reraise", "finish", "done", "raised"}
          /\ pc = "raised" => raised = [exc |-> "AttributeError", at |-> "finish"]

\* d2mz.get raised, the file was restored and the exception reached the caller.
C6_Witness ==
    /\ pc = "raised"
    /\ ~pretrained
    /\ raised.exc \in GetErrors
    /\ log[Len(log)] = "restore_write"

\* C7: with pretrained=False, when the name is no key of the table or its
\* config file does not exist, construction fails with a RuntimeError,
\* d2mz.get is never called and no file is written.
C7_UnavailableIsRuntimeError ==
    (/\ ~pretrained
     /\ pc # "patch_read"
     /\ (name \notin KnownNames \/ ~orig[d2config_path].exists))
    => /\ pc = "raised"
       /\ raised = [exc |-> "RuntimeError", at |-> "patch"]
       /\ ~GetWasCalled
       /\ log = <<>>
       /\ disk = orig

\* What the code does in the cases of C7: it fails before d2mz.get is called
\* and before any write, with a KeyError for a name outside the table and a
\* RuntimeError for a missing file.
C7_UnavailableFailsEarly ==
    (/\ ~pretrained
     /\ pc # "patch_read"
     /\ (name \notin KnownNames \/ ~orig[d2config_path].exists))
    => /\ pc = "raised"
       /\ raised.at = "patch"
       /\ raised.exc = IF name \in KnownNames THEN "RuntimeError" ELSE "KeyError"
       /\ ~GetWasCalled
       /\ log = <<>>
       /\ disk = orig

-----------------------------------------------------------------------------
(* Properties of the two forward methods (specification SpecForward).       *)

\* The first k modules applied in order, the first one to x.
RECURSIVE Chain(_, _, _, _)
Chain(n, modules, k, x) ==
    IF k = 0 THEN x ELSE Call(n, modules[k], Chain(n, modules, k - 1, x))

Position(children, child) == CHOOSE i \in 1..Len(children) : children[i] = child

TVModules == [i \in 1..Len(TVChildren) |-> TVModule(TVChildren[i])]

\* The output of the child called `child`, at its place in the chain.
OutputOfChild(modules, children, child) ==
    Chain(net, modules, Position(children, child), image)

LayerNames == {"layer1", "layer2", "layer3", "layer4"}

\* C2: with return_intermediate_outputs=True both adapters return a dict with
\* exactly the keys layer1..layer4; in the D2 adapter layer1, layer2, layer3
\* are the outputs of the backbone children res2, res3, res4 and layer4 is
\* the roi-head res5 stage applied to the output of the last backbone child.
C2_NamedStages ==
    (fwd_pc = "returned" /\ return_intermediate_outputs) =>
       /\ result.kind = "dict"
       /\ DOMAIN result.dict = LayerNames
       /\ adapter = "d2" =>
             /\ result.dict["layer1"] = OutputOfChild(D2Children, D2Children, "res2")
             /\ result.dict["layer2"] = OutputOfChild(D2Children, D2Children, "res3")
             /\ result.dict["layer3"] = OutputOfChild(D2Children, D2Children, "res4")
             /\ result.dict["layer4"] =
                   Call(net, "res5", Chain(net, D2Children, Len(D2Children), image))

\* The D2 adapter returned its dict of stages.
C2_Witness ==
    /\ adapter = "d2"
    /\ fwd_pc = "returned"
    /\ return_intermediate_outputs
    /\ result.kind = "dict"

\* C8: TorchvisionVisualStream.forward applies the children in order, the
\* first to the image and each next one to the previous output; the entry of
\* layerN is the output of child layerN at that point of the chain; and with
\* return_intermediate_outputs=False the result is the layer4 entry, in which
\* no child after layer4 has taken part.
C8_LastResidualStage ==
    (adapter = "torchvision" /\ fwd_pc # "idle") =>
       /\ idx >= 1 => out = Chain(net, TVModules, idx, image)
       /\ DOMAIN intermediate_outputs =
             {TVChildren[i] : i \in 1..idx} \cap LayerNames
       /\ \A k \in DOMAIN intermediate_outputs :
             intermediate_outputs[k] = OutputOfChild(TVModules, TVChildren, k)
       /\ (fwd_pc = "returned" /\ ~return_intermediate_outputs) =>
             /\ result.kind = "tensor"
             /\ result.tensor = intermediate_outputs["layer4"]
             /\ \A i \in 1..Len(result.tensor.ops) :
                   result.tensor.ops[i][2] \notin {"avgpool", "fc", "Identity"}

\* The torchvision adapter went through all ten children and returned a tensor.
C8_Witness ==
    /\ adapter = "torchvision"
    /\ fwd_pc = "returned"
    /\ ~return_intermediate_outputs
    /\ idx = Len(TVChildren)
    /\ result.kind = "tensor"

-----------------------------------------------------------------------------
(* Properties of detectron2_backbone_state_dict (specification              *)
(* SpecStateDict).                                                          *)

\* The detectron2 name of an entry, from its place in the network: resL+1 for
\* layerL, convK.norm for bnK, shortcut and shortcut.norm for downsample.0
\* and downsample.1, and stem. before the entries outside the layers.
ExpectedKey(e) ==
    (IF e.layer = 0 THEN STEM_DOT
     ELSE RES \o Decimal(e.layer + 1) \o DOT \o Decimal(e.block) \o DOT)
    \o (CASE e.mod = "conv" -> <<"c", "o", "n", "v">> \o Decimal(e.k)
          [] e.mod = "bn" -> <<"c", "o", "n", "v">> \o Decimal(e.k) \o <<".", "n", "o", "r", "m">>
          [] e.mod = "downsample.0" -> <<"s", "h", "o", "r", "t", "c", "u", "t">>
          [] e.mod = "downsample.1" -> <<"s", "h", "o", "r", "t", "c", "u", "t", ".", "n", "o", "r", "m">>)
    \o DOT \o FieldText(e.field)

Entries == [a \in DOMAIN ARCHS |-> ArchEntries(a)]

\* C3: every key of the wrapped CNN's state dict is renamed into the
\* detectron2 scheme, a renamed key that does not start with "res" is prefixed
\* with "stem.", and the returned "model" dict has exactly one entry per entry
\* of the source state dict, each holding the parameter of its source key.
C3_RenamedStateDict ==
    /\ Cardinality(DOMAIN d2_backbone_dict) = sd_idx
    /\ sd_idx >= 1 =>
          LET k == ExpectedKey(Entries[arch][sd_idx])
          IN  /\ k \in DOMAIN d2_backbone_dict
              /\ d2_backbone_dict[k] = StateDictItems[arch][sd_idx].param
    /\ sd_result.returned =>
          /\ sd_result.model = d2_backbone_dict
          /\ Cardinality(DOMAIN sd_result.model) = Len(StateDictItems[arch])
          /\ \A i \in 1..Len(Entries[arch]) :
                /\ ExpectedKey(Entries[arch][i]) \in DOMAIN sd_result.model
                /\ sd_result.model[ExpectedKey(Entries[arch][i])] = <<arch, i>>
          /\ \A k \in DOMAIN sd_result.model :
                StartsWith(k, RES) \/ StartsWith(k, STEM_DOT)

\* The state dict of a network with bottleneck blocks and downsample
\* branches was renamed and returned.
C3_Witness ==
    /\ arch = "resnet101"
    /\ sd_result.returned
    /\ sd_idx = Len(StateDictItems[arch])
    /\ sd_idx > 0

-----------------------------------------------------------------------------
(* Properties of BlindVisualStream (specification SpecBlind).               *)

\* C4: for any two images with the same batch size B the outputs of forward
\* are identical; the output has shape (B, 1, visual_feature_size) and every
\* element is the bias_value given at construction; and the bias keeps that
\* value and requires_grad=False.
C4_BlindOutput ==
    /\ \A i \in 1..Len(blind_calls) :
          LET c == blind_calls[i]
          IN  /\ Len(c.output) = Len(c.image)
              /\ \A b \in 1..Len(c.output) :
                    /\ Len(c.output[b]) = 1
                    /\ Len(c.output[b][1]) = blind.visual_feature_size
                    /\ \A f \in 1..Len(c.output[b][1]) :
                          c.output[b][1][f] = blind.bias_value
    /\ \A i, j \in 1..Len(blind_calls) :
          Len(blind_calls[i].image) = Len(blind_calls[j].image)
             => blind_calls[i].output = blind_calls[j].output
    /\ blind.bias = [data |-> Full(blind.visual_feature_size, blind.bias_value),
                     requires_grad |-> FALSE]

\* forward ran on two different images of the same, positive batch size.
C4_Witness ==
    /\ blind.visual_feature_size > 1
    /\ \E i, j \in 1..Len(blind_calls) :
          /\ blind_calls[i].image # blind_calls[j].image
          /\ Len(blind_calls[i].image) = Len(blind_calls[j].image)
          /\ Len(blind_calls[i].image) = MaxBatch

=============================================================================
